---- MODULE Spec2Model ----
(***************************************************************************)
(* Model of src/annotate.py: the annotation pipeline (annotate.generate,   *)
(* _call_ollama, _repair_json, _clean).                                     *)
(*                                                                         *)
(* Text is modelled as a sequence of lexical tokens.  A token is a record  *)
(* [c, n, v]: c is its lexical class, n the number of characters it        *)
(* stands for, v a payload.  The classes:                                  *)
(*   "[" "]" "{" "}" ","   the JSON punctuation character itself           *)
(*   "nl"  one newline character          "sp"  one space character        *)
(*   "W"   a run of n word characters, v naming the words when they       *)
(*         matter (never valid JSON)                                       *)
(*   "fence"  the three backticks         "json"  the word json            *)
(*   "S"   a double-quoted string literal  "N"  a number literal           *)
(*   "null"  the literal null                                              *)
(*   "F"   the members "type":..,"quote":..,"annotation":..,"themes":      *)
(*         of annotation record v, up to and including the colon after     *)
(*         the themes key: the themes value follows as tokens              *)
(*   "G"   the members of record v without a themes key                    *)
(*   "Fq"  as F, written with single quotes                                *)
(*   "Fn"  as F, with a raw newline between two word characters inside     *)
(*         the annotation string                                           *)
(*   "Fo"  the members of record v up to the middle of its annotation      *)
(*         string, where the string holds the characters { x }, and       *)
(*   "Fc"  the rest of that string and the themes key with its colon:      *)
(*         the braces inside the string are tokens of their own            *)
(*   "P"   a fragment of n characters cut out of a longer token            *)
(* The strings held in JSON values and annotation records are sequences    *)
(* of the same tokens.                                                     *)
(***************************************************************************)
EXTENDS Integers, Sequences, FiniteSets, TLC

\* ---------------------------------------------------------------- bounds
MaxPages == 2
MaxObjs == 2
MaxItems == 2
MaxBlankPages == 24
MaxAnns == 2
MaxLines == 90
MaxHits == 6

\* ------------------------------------------------------ program constants
RepairSnippetLen == 300
DiagSnippetLen == 500
MaxTextLen == 4000
PctScale == 92
PctFinal == 93
DefaultPageTo == 9999
PctBuilding == 96
PctDone == 100
MantBits == 53
\* Lengths of the page layout, in thousandths of a point.
TopInset == 14000
BottomInset == 12000
Gap == 3500
BoxBase == 16300
LineQuote == 8448
QuoteGap == 2000
LineText == 9384
ThemeRow == 8000
MinQuoteLen == 5
HitCap == 5
LimbBits == 15
Limb == 2 ^ LimbBits

\* ----------------------------------------------------------------- tokens
Tok(c, n, v) == [c |-> c, n |-> n, v |-> v]
LB == Tok("[", 1, "")
RB == Tok("]", 1, "")
LC == Tok("{", 1, "")
RC == Tok("}", 1, "")
CM == Tok(",", 1, "")
NL == Tok("nl", 1, "")
SP == Tok("sp", 1, "")
W(n) == Tok("W", n, "")
Txt(n, v) == Tok("W", n, v)
FENCE == Tok("fence", 3, "")
JSONTAG == Tok("json", 4, "")
S(v) == Tok("S", 6, v)
NUM == Tok("N", 1, "5")
NULLTOK == Tok("null", 4, "")
F(v) == Tok("F", 60, v)
G(v) == Tok("G", 50, v)
Fq(v) == Tok("Fq", 60, v)
Fn(v) == Tok("Fn", 60, v)
Fo(v) == Tok("Fo", 40, v)
Fc(v) == Tok("Fc", 12, v)

IsWs(t) == t.c \in {"nl", "sp"}

RECURSIVE CharLen(_)
CharLen(s) == IF s = <<>> THEN 0 ELSE Head(s).n + CharLen(Tail(s))

\* ------------------------------------------------------------ JSON values
Absent == [k |-> "absent"]
Str(toks) == [k |-> "str", s |-> toks]
Num(x) == [k |-> "num", x |-> x]
Null == [k |-> "null"]
List(items) == [k |-> "list", items |-> items]
Dict(t, q, a, th) == [k |-> "dict", type |-> t, quote |-> q, annotation |-> a, themes |-> th]
EmptyDict == Dict(Absent, Absent, Absent, Absent)

\* The three members a record payload stands for.
Rec(v) ==
    CASE v = "a" -> [type |-> Str(<<Txt(10, "definition")>>),
                     quote |-> Str(<<Txt(4, "Thou"), SP, Txt(3, "art")>>),
                     annotation |-> Str(<<Txt(7, "Archaic"), SP, Txt(4, "form")>>)]
      [] v = "b" -> [type |-> Str(<<Txt(8, "question")>>),
                     quote |-> Str(<<Txt(2, "is"), SP, Txt(4, "this")>>),
                     annotation |-> Str(<<Txt(11, "Rhetorical?")>>)]
      [] v = "c" -> [type |-> Str(<<SP, Txt(8, "Question")>>),
                     quote |-> Str(<<NL, Txt(1, "q")>>),
                     annotation |-> Str(<<Txt(1, "x"), NL, Txt(1, "y")>>)]
      [] v = "d" -> [type |-> Num(5), quote |-> Absent, annotation |-> Null]
      [] v = "e" -> [type |-> Str(<<Txt(8, "notation")>>),
                     quote |-> Str(<<Txt(1, "q")>>),
                     annotation |-> Str(<<Txt(4, "uses"), SP, LC, Txt(1, "x"), RC>>)]
      [] OTHER   -> [type |-> Str(<<Txt(5, "bogus")>>), quote |-> Str(<<>>),
                     annotation |-> Absent]

\* ------------------------------------------------------------- json.loads
Fail == [ok |-> FALSE, val |-> Null, pos |-> 0]
Okv(val, pos) == [ok |-> TRUE, val |-> val, pos |-> pos]

RECURSIVE SkipWs(_, _)
SkipWs(s, i) == IF i <= Len(s) /\ IsWs(s[i]) THEN SkipWs(s, i + 1) ELSE i

ClassAt(s, i) == IF i >= 1 /\ i <= Len(s) THEN s[i].c ELSE "eof"

RECURSIVE ParseValue(_, _)
RECURSIVE ParseItems(_, _, _)

\* The closing brace of an object at position e, after members r and themes thv.
CloseAt(s, e, r, thv) ==
    IF ClassAt(s, e) = "}" THEN Okv(Dict(r.type, r.quote, r.annotation, thv), e + 1) ELSE Fail

CloseObject(s, r, th) == IF ~th.ok THEN Fail ELSE CloseAt(s, SkipWs(s, th.pos), r, th.val)

\* Where the themes value starts after the member token at j, 0 when the
\* string of an Fo token is not closed by its Fc token.
ThemesPos(s, j) ==
    CASE ClassAt(s, j) = "F" -> j + 1
      [] ClassAt(s, j) = "Fo" ->
            IF /\ ClassAt(s, j + 1) = "{" /\ ClassAt(s, j + 2) = "W"
               /\ ClassAt(s, j + 3) = "}" /\ ClassAt(s, j + 4) = "Fc"
            THEN j + 5 ELSE 0
      [] OTHER -> 0

ThemesValue(s, j, at) ==
    IF ClassAt(s, j) = "G" THEN Okv(Absent, j + 1)
    ELSE IF at = 0 THEN Fail
    ELSE ParseValue(s, SkipWs(s, at))

\* The members of an object, from position j on.
ParseMembers(s, j) ==
    IF ClassAt(s, j) = "}" THEN Okv(EmptyDict, j + 1)
    ELSE IF ClassAt(s, j) \in {"G", "F", "Fo"}
         THEN CloseObject(s, Rec(s[j].v), ThemesValue(s, j, ThemesPos(s, j)))
         ELSE Fail

ParseObject(s, i) == ParseMembers(s, SkipWs(s, i + 1))

ParseArray(s, j) ==
    IF ClassAt(s, j) = "]" THEN Okv(List(<<>>), j + 1) ELSE ParseItems(s, j, <<>>)

ParseValue(s, i) ==
    CASE ClassAt(s, i) = "[" -> ParseArray(s, SkipWs(s, i + 1))
      [] ClassAt(s, i) = "{" -> ParseObject(s, i)
      [] ClassAt(s, i) = "S" -> Okv(Str(<<Txt(s[i].n - 2, s[i].v)>>), i + 1)
      [] ClassAt(s, i) = "N" -> Okv(Num(5), i + 1)
      [] ClassAt(s, i) = "null" -> Okv(Null, i + 1)
      [] OTHER -> Fail

\* After an element of an array: a comma and the next element, or the end.
ItemsNext(s, j, acc) ==
    CASE ClassAt(s, j) = "," -> ParseItems(s, SkipWs(s, j + 1), acc)
      [] ClassAt(s, j) = "]" -> Okv(List(acc), j + 1)
      [] OTHER -> Fail

ItemsAfter(s, acc, r) ==
    IF ~r.ok THEN Fail ELSE ItemsNext(s, SkipWs(s, r.pos), Append(acc, r.val))

ParseItems(s, i, acc) == ItemsAfter(s, acc, ParseValue(s, i))

WholeText(s, r) ==
    IF r.ok /\ SkipWs(s, r.pos) = Len(s) + 1 THEN [ok |-> TRUE, val |-> r.val]
    ELSE [ok |-> FALSE, val |-> Null]

\* json.loads(s): the whole text is one JSON value, blanks around it allowed.
Loads(s) == WholeText(s, ParseValue(s, SkipWs(s, 1)))

\* ------------------------------------------------------- string helpers
\* str.find / str.rfind of a one-character needle: 0 stands for Python's -1.
Find(s, c) ==
    IF \E i \in 1..Len(s) : s[i].c = c
    THEN CHOOSE i \in 1..Len(s) : s[i].c = c /\ \A j \in 1..(i - 1) : s[j].c # c
    ELSE 0

RFind(s, c) ==
    IF \E i \in 1..Len(s) : s[i].c = c
    THEN CHOOSE i \in 1..Len(s) : s[i].c = c /\ \A j \in (i + 1)..Len(s) : s[j].c # c
    ELSE 0

RECURSIVE LStrip(_)
LStrip(s) == IF s # <<>> /\ IsWs(Head(s)) THEN LStrip(Tail(s)) ELSE s

RECURSIVE RStrip(_)
RStrip(s) == IF s # <<>> /\ IsWs(s[Len(s)]) THEN RStrip(SubSeq(s, 1, Len(s) - 1)) ELSE s

\* str.strip()
Strip(s) == RStrip(LStrip(s))

\* A token cut after its first k characters.
Cut(t, k) == IF t.c = "W" THEN W(k) ELSE Tok("P", k, t.v)

\* s[:n], n counted in characters.
RECURSIVE Prefix(_, _)
Prefix(s, n) ==
    IF s = <<>> \/ n <= 0 THEN <<>>
    ELSE IF Head(s).n <= n THEN <<Head(s)>> \o Prefix(Tail(s), n - Head(s).n)
    ELSE <<Cut(Head(s), n)>>

\* re.sub(r"```(?:json)?", "", chunk): every fence goes, with the word json
\* when it follows the fence directly.
RECURSIVE StripFences(_)
StripFences(s) ==
    IF s = <<>> THEN <<>>
    ELSE IF Head(s).c = "fence"
         THEN IF Len(s) >= 2 /\ s[2].c = "json" THEN StripFences(SubSeq(s, 3, Len(s)))
              ELSE StripFences(Tail(s))
         ELSE <<Head(s)>> \o StripFences(Tail(s))

\* The last character of the token is a double quote or a word character.
EndsQuoteOrWord(t) == t.c \in {"S", "W", "N", "null", "json", "G"}
\* The first character of the token is a double quote, a word character or a space.
StartsQuoteWordOrSpace(t) ==
    t.c \in {"S", "W", "N", "null", "json", "F", "Fn", "Fo", "Fc", "G", "sp"}

\* re.sub(r'(?<=["\w])\n(?=["\w ])', ' ', chunk)
CollapseNewlines(s) ==
    [i \in 1..Len(s) |->
        IF s[i].c = "Fn" THEN F(s[i].v)
        ELSE IF /\ s[i].c = "nl"
                /\ i > 1 /\ EndsQuoteOrWord(s[i - 1])
                /\ i < Len(s) /\ StartsQuoteWordOrSpace(s[i + 1])
             THEN SP
             ELSE s[i]]

\* chunk[:chunk.rfind("}")+1] + "]" if chunk.rfind("}") != -1 else chunk
CutAt(chunk, b) == IF b # 0 THEN Append(SubSeq(chunk, 1, b), RB) ELSE chunk
CutAtLastBrace(chunk) == CutAt(chunk, RFind(chunk, "}"))

\* re.sub(r'\n', ' ', obj) and str.replace("\n", " ")
ReplaceNewlines(s) ==
    [i \in 1..Len(s) |->
        IF s[i].c = "nl" THEN SP ELSE IF s[i].c = "Fn" THEN F(s[i].v) ELSE s[i]]

\* obj.replace("'", '"')
DoubleQuotes(s) == [i \in 1..Len(s) |-> IF s[i].c = "Fq" THEN F(s[i].v) ELSE s[i]]

\* The next brace at or after position i, 0 when there is none.
NextBrace(s, i) ==
    IF \E j \in i..Len(s) : s[j].c \in {"{", "}"}
    THEN CHOOSE j \in i..Len(s) :
            s[j].c \in {"{", "}"} /\ \A m \in i..(j - 1) : s[m].c \notin {"{", "}"}
    ELSE 0

\* re.findall(r'\{[^{}]+\}', chunk, re.DOTALL), scanning from position i.
RECURSIVE FindObjects(_, _)
\* A match starts at the brace at i when the next brace, at j, closes it.
MatchAt(s, i, j) ==
    IF j # 0 /\ s[j].c = "}" /\ j > i + 1
    THEN <<i, j>> ELSE <<i, 0>>
FindFrom(s, m) ==
    IF m[2] # 0 THEN <<SubSeq(s, m[1], m[2])>> \o FindObjects(s, m[2] + 1)
    ELSE FindObjects(s, m[1] + 1)
FindObjects(s, i) ==
    IF i > Len(s) THEN <<>>
    ELSE IF s[i].c = "{" THEN FindFrom(s, MatchAt(s, i, NextBrace(s, i + 1)))
    ELSE FindFrom(s, <<i, 0>>)

\* --------------------------------------------------------- _repair_json
Returned(val) == [ok |-> TRUE, val |-> val, snippet |-> <<>>]
Raised(snippet) == [ok |-> FALSE, val |-> Null, snippet |-> snippet]

\* raw[s:e+1] if s != -1 and e > s else raw
ChunkBetween(text, s, e) == IF s # 0 /\ e > s THEN SubSeq(text, s, e) ELSE text
Chunk(text) == ChunkBetween(text, Find(text, "["), RFind(text, "]"))

Candidates(chunk) ==
    << chunk,
       Strip(StripFences(chunk)),
       CollapseNewlines(chunk),
       CutAtLastBrace(chunk) >>

\* for variant in [obj, obj.replace("'", '"')]: the first that parses, if any.
Variants(obj) == <<obj, DoubleQuotes(obj)>>
RECURSIVE TryVariants(_, _)
VariantParsed(vs, k, r) == IF r.ok THEN <<r.val>> ELSE TryVariants(vs, k + 1)
TryVariants(vs, k) == IF k > Len(vs) THEN <<>> ELSE VariantParsed(vs, k, Loads(vs[k]))

\* Strategy 6 on one fragment.
ParseFragment(obj) == TryVariants(Variants(ReplaceNewlines(obj)), 1)

RECURSIVE ParseFragments(_)
ParseFragments(objs) ==
    IF objs = <<>> THEN <<>> ELSE ParseFragment(Head(objs)) \o ParseFragments(Tail(objs))

Strategy6Result(text, parsed) ==
    IF parsed # <<>> THEN Returned(List(parsed))
    ELSE Raised(Prefix(text, RepairSnippetLen))

Strategy6(text) == Strategy6Result(text, ParseFragments(FindObjects(Chunk(text), 1)))

\* The first candidate that parses wins; strategy 6 when none does.
RECURSIVE TryCandidates(_, _, _)
CandidateParsed(text, cands, k, r) ==
    IF r.ok THEN Returned(r.val) ELSE TryCandidates(text, cands, k + 1)
TryCandidates(text, cands, k) ==
    IF k > Len(cands) THEN Strategy6(text)
    ELSE CandidateParsed(text, cands, k, Loads(cands[k]))

\* Strategy 1, then the candidates.
Strategy1(text, r) ==
    IF r.ok THEN Returned(r.val) ELSE TryCandidates(text, Candidates(Chunk(text)), 1)

repair_json(text) == Strategy1(text, Loads(text))

\* --------------------------------------------------------------- _clean
ValidTypes == {"notation", "definition", "question", "reaction", "device", "theme", "summary"}

\* str(x) of a JSON value.
StrOf(v) ==
    CASE v.k = "str"  -> v.s
      [] v.k = "num"  -> <<NUM>>
      [] v.k = "null" -> <<Txt(4, "None")>>
      [] v.k = "list" -> <<LB, Tok("P", 2, ""), RB>>
      [] OTHER        -> <<LC, Tok("P", 2, ""), RC>>

LowerWord(v) ==
    CASE v = "Question" -> "question"
      [] v = "THEME"    -> "theme"
      [] v = "None"     -> "none"
      [] OTHER          -> v

\* str.lower()
Lower(s) == [i \in 1..Len(s) |-> IF s[i].c = "W" THEN Txt(s[i].n, LowerWord(s[i].v)) ELSE s[i]]

\* item.get(key, default)
Get(field, default) == IF field.k = "absent" THEN default ELSE field

Annot(type, quote, annotation, themes) ==
    [type |-> type, quote |-> quote, annotation |-> annotation, themes |-> themes]

\* t if t in valid else "notation"
FoldType(t) ==
    IF Len(t) = 1 /\ t[1].c = "W" /\ t[1].v \in ValidTypes THEN t[1].v ELSE "notation"

CleanType(item) == FoldType(Strip(Lower(StrOf(Get(item.type, Str(<<Txt(8, "notation")>>))))))

CleanText(field) == Strip(ReplaceNewlines(StrOf(Get(field, Str(<<>>)))))

CleanThemes(item) ==
    IF item.themes.k = "list"
    THEN [i \in 1..Len(item.themes.items) |-> StrOf(item.themes.items[i])]
    ELSE <<>>

\* What _clean or a step of it does: it returns out, or raises exc.
Ret(out) == [exc |-> "", out |-> out]
Exc(name) == [exc |-> name, out |-> <<>>]

\* A faulty variant of IsMapping: the check of the entry's shape is left out.
IsMappingAlways(item) == TRUE

\* isinstance(item, dict)
IsMapping(item) == item.k = "dict"

\* The body of the loop: item.get exists on a mapping only.
CleanItem(item) ==
    IF item.k # "dict" THEN Exc("AttributeError")
    ELSE Ret(<<Annot(CleanType(item), CleanText(item.quote), CleanText(item.annotation),
                     CleanThemes(item))>>)

RECURSIVE CleanLoop(_, _)
CleanNext(items, out, r) == IF r.exc # "" THEN r ELSE CleanLoop(Tail(items), out \o r.out)
CleanLoop(items, out) ==
    IF items = <<>> THEN Ret(out)
    ELSE IF ~IsMapping(Head(items)) THEN CleanNext(items, out, Ret(<<>>))
    ELSE CleanNext(items, out, CleanItem(Head(items)))

PresentKey(v, key) == v[key].k # "absent"
KeysOf(v) ==
    (IF PresentKey(v, "type") THEN <<"type">> ELSE <<>>)
    \o (IF PresentKey(v, "quote") THEN <<"quote">> ELSE <<>>)
    \o (IF PresentKey(v, "annotation") THEN <<"annotation">> ELSE <<>>)
    \o (IF PresentKey(v, "themes") THEN <<"themes">> ELSE <<>>)

\* What a for loop over the value visits; a number or null cannot be iterated.
Iterable(v) == v.k \in {"list", "dict", "str"}
IterItems(v) ==
    CASE v.k = "list" -> v.items
      [] v.k = "str"  -> [i \in 1..Len(v.s) |-> Str(<<v.s[i]>>)]
      [] OTHER        -> [i \in 1..Len(KeysOf(v)) |-> Str(<<KeysOf(v)[i]>>)]

clean(raw_list) ==
    IF ~Iterable(raw_list) THEN Exc("TypeError") ELSE CleanLoop(IterItems(raw_list), <<>>)

\* --------------------------------------------------------- _call_ollama
NoOutputRecord == Annot("notation", <<>>, <<Txt(25, "Model returned no output.")>>, <<>>)
NoAnnotationsRecord == Annot("notation", <<>>, <<Txt(24, "No annotations produced.")>>, <<>>)
ParseFailedHead == <<Txt(23, "JSON parse failed. Raw:"), SP>>
ParseFailedRecord(snippet) == Annot("notation", <<>>, ParseFailedHead \o snippet, <<>>)
NoTextRecord ==
    Annot("notation", <<>>, <<Txt(51, "No extractable text on this page (may be an image).")>>, <<>>)

Anns(anns) == [ok |-> TRUE, anns |-> anns, err |-> ""]
RuntimeError(msg) == [ok |-> FALSE, anns |-> <<>>, err |-> msg]

\* The outcomes of the HTTP exchange with the completion client.
ClientFailures == {"connection_error", "timeout", "other_error"}
Response(raw) == [kind |-> "response", raw |-> raw]
Failure(kind) == [kind |-> kind, raw |-> <<>>]

\* raw[:500] if raw else "(empty)"
DiagSnippet(raw) == IF raw # <<>> THEN Prefix(raw, DiagSnippetLen) ELSE <<Txt(7, "(empty)")>>

CleanedOrDefault(cleaned) == IF cleaned # <<>> THEN cleaned ELSE <<NoAnnotationsRecord>>

\* A faulty variant of OnConnectionError: the failure is turned into a record.
OnConnectionErrorSwallowed == Anns(<<NoOutputRecord>>)

\* except req_lib.exceptions.ConnectionError
OnConnectionError == RuntimeError("Cannot connect to Ollama. Run: ollama serve")

\* except req_lib.exceptions.Timeout
OnTimeout == RuntimeError("Ollama timed out. Try a faster/smaller model.")

\* A faulty variant of OnValueError: the repair failure ends the job.
OnValueErrorRaises(text) == RuntimeError("JSON repair failed.")

\* except ValueError
OnValueError(text) == Anns(<<ParseFailedRecord(DiagSnippet(text))>>)

\* cleaned or the no-annotations record; an exception of _clean is re-raised.
AfterClean(c) == IF c.exc # "" THEN RuntimeError(c.exc) ELSE Anns(CleanedOrDefault(c.out))

AfterRepair(text, rep) == IF ~rep.ok THEN OnValueError(text) ELSE AfterClean(clean(rep.val))

OnResponse(text) ==
    IF text = <<>> THEN Anns(<<NoOutputRecord>>) ELSE AfterRepair(text, repair_json(text))

call_ollama(resp) ==
    CASE resp.kind = "connection_error" -> OnConnectionError
      [] resp.kind = "timeout" -> OnTimeout
      [] resp.kind = "other_error" -> RuntimeError("other")
      [] resp.kind = "bad_body" -> OnValueError(<<>>)
      [] OTHER -> OnResponse(Strip(resp.raw))

\* ------------------------------------------------------------------ state
VARIABLES
    pc,          \* "idle", "rejected", "open", "page" or "done": where the job stands
    page_from,   \* annotate(): max(1, int(form page_from))
    page_to,     \* annotate(): int(form page_to)
    doc,         \* the uploaded document: [ok, total]
    n,           \* generate(): len(pages)
    p_start,     \* generate(): page_from - 1
    p_end,       \* generate(): min(page_to, total)
    i,           \* generate(): index of the page the loop is at
    events,      \* the generation stream, in emission order
    calls,       \* the completion-client calls made: [page, text, resp]
    extracted,   \* the stripped texts page.extract_text() gave: [page, text]
    status,      \* HTTP status of annotate()'s response, 0 before it
    raw,         \* the text given to _repair_json, with how it was built
    repaired,    \* what _repair_json did with it
    raw_list,    \* the sequence given to _clean
    cleaned,     \* what _clean returned for it
    client,      \* run() of the page script: "idle", "fetching", "reading",
                 \* "building", "finally" or "finished"
    consumed,    \* run(): how many events of the stream it has handled
    ui_pct,      \* setProgress(): the percentage the progress bar shows
    ui_err,      \* showErr(): whether the error box is shown
    allAnns,     \* handleMsg(): the annotations collected for phase 2
    build,       \* build_pdf(): "idle", "open", "pages", "anns" or "done"
    bdoc,        \* the document given to build_pdf(): [ok, pages, ph]
    raw_anns,    \* build_pdf(): json.loads(ann_json)
    by_page,     \* build_pdf(): the annotations grouped by page, in insertion order
    grp,         \* _render_pdf(): index of the group the outer loop is at
    ai,          \* _render_pdf(): index of the annotation the inner loop is at
    margin_y,    \* _render_pdf(): the cursor of the margin strip
    drawn,       \* _render_pdf(): what was drawn, one record per annotation
    bresp        \* build_pdf(): its response

driver_vars == <<pc, page_from, page_to, doc, n, p_start, p_end, i, events, calls, extracted, status>>
repair_vars == <<raw, repaired>>
clean_vars == <<raw_list, cleaned>>
unit_vars == <<repair_vars, clean_vars>>
client_vars == <<client, consumed, ui_pct, ui_err, allAnns>>
render_vars == <<build, bdoc, raw_anns, by_page, grp, ai, margin_y, drawn, bresp>>
vars == <<driver_vars, unit_vars, client_vars, render_vars>>

NotRun == [ran |-> FALSE]
NoCase == [kind |-> "none", text |-> <<>>, objs |-> <<>>]

\* ----------------------------------------------------------------- events
Progress(pct, pg, of) == [type |-> "progress", pct |-> pct, label |-> "Annotating page", page |-> pg, of |-> of]
FinalProgress == [type |-> "progress", pct |-> PctFinal, label |-> "Annotations complete", page |-> 0, of |-> 0]
PageStart(pg) == [type |-> "page_start", page |-> pg]
Annotation(pg, data) == [type |-> "annotation", page |-> pg, data |-> data]
Error(msg) == [type |-> "error", message |-> msg]
DoneMarker == [type |-> "[DONE]"]

Min(a, b) == IF a < b THEN a ELSE b
Max(a, b) == IF a > b THEN a ELSE b

\* len(pages[start:stop]) for a list of total pages, start >= 0.
SliceLen(total, start, stop) ==
    LET lo == Min(start, total)
        hi == IF stop < 0 THEN Max(stop + total, 0) ELSE Min(stop, total)
    IN Max(hi - lo, 0)

\* Binary floating point, as Python's float has it: a number is m * 2^(-e),
\* and every operation rounds its exact result to MantBits significant binary
\* digits, to nearest, ties to even. m is a sequence of digits of base Limb,
\* most significant first, so that no step leaves the machine integers.
RECURSIVE NatLimbs(_)
NatLimbs(x) == IF x = 0 THEN <<>> ELSE NatLimbs(x \div Limb) \o <<x % Limb>>
RECURSIVE LimbsNat(_)
LimbsNat(ls) ==
    IF ls = <<>> THEN 0 ELSE Limb * LimbsNat(SubSeq(ls, 1, Len(ls) - 1)) + ls[Len(ls)]
RECURSIVE Norm(_)
Norm(ls) == IF ls # <<>> /\ ls[1] = 0 THEN Norm(Tail(ls)) ELSE ls

\* The number of binary digits of a digit, and of a number.
BitLen(x) == CHOOSE b \in 0..LimbBits : x < 2 ^ b /\ (b = 0 \/ x >= 2 ^ (b - 1))
BitLength(ls) == IF ls = <<>> THEN 0 ELSE LimbBits * (Len(ls) - 1) + BitLen(ls[1])

\* ls divided by a small d: quotient and remainder.
RECURSIVE DivLimbs(_, _, _, _, _)
DivStep(ls, at, d, v, acc) == DivLimbs(ls, at + 1, d, v % d, Append(acc, v \div d))
DivLimbs(ls, at, d, rem, acc) ==
    IF at > Len(ls) THEN [q |-> Norm(acc), r |-> rem]
    ELSE DivStep(ls, at, d, rem * Limb + ls[at], acc)

\* ls times a small k.
RECURSIVE MulLimbs(_, _, _, _, _)
MulStep(ls, at, k, v, low) == MulLimbs(ls, at - 1, k, v \div Limb, <<v % Limb>> \o low)
MulLimbs(ls, at, k, carry, low) ==
    IF at = 0 THEN NatLimbs(carry) \o low ELSE MulStep(ls, at, k, ls[at] * k + carry, low)

\* x * 2^s for a small x.
ShiftLeft(x, s) == NatLimbs(x * 2 ^ (s % LimbBits)) \o [k \in 1..(s \div LimbBits) |-> 0]

RECURSIVE IncrLimbs(_)
IncrLimbs(ls) ==
    IF ls = <<>> THEN <<1>>
    ELSE IF ls[Len(ls)] < Limb - 1
         THEN SubSeq(ls, 1, Len(ls) - 1) \o <<ls[Len(ls)] + 1>>
         ELSE IncrLimbs(SubSeq(ls, 1, Len(ls) - 1)) \o <<0>>

IsOdd(ls) == ls # <<>> /\ ls[Len(ls)] % 2 = 1
\* The quotient q of a division by d that left r, rounded to nearest, ties to even.
Nearest(q, r, d) == IF 2 * r > d \/ (2 * r = d /\ IsOdd(q)) THEN IncrLimbs(q) ELSE q
NearestOf(qr, d) == Nearest(qr.q, qr.r, d)

\* The binary places by which idx / cnt, 0 < idx < cnt, lies below 1.
Lead(idx, cnt) ==
    CHOOSE k \in 0..LimbBits : idx * 2 ^ k >= cnt /\ (k = 0 \/ idx * 2 ^ (k - 1) < cnt)

QuotientAt(idx, cnt, e) ==
    [m |-> NearestOf(DivLimbs(ShiftLeft(idx, e), 1, cnt, 0, <<>>), cnt), e |-> e]
\* idx / cnt
Quotient(idx, cnt) == QuotientAt(idx, cnt, MantBits - 1 + Lead(idx, cnt))

Excess(p) == IF BitLength(p) > MantBits THEN BitLength(p) - MantBits ELSE 0
ProductAt(p, e, drop) ==
    [m |-> NearestOf(DivLimbs(p, 1, 2 ^ drop, 0, <<>>), 2 ^ drop), e |-> e - drop]
ProductOf(p, e) == ProductAt(p, e, Excess(p))
\* f * k
Product(f, k) == ProductOf(MulLimbs(f.m, Len(f.m), k, 0, <<>>), f.e)

\* int(f), f >= 0
Trunc(f) ==
    LimbsNat(DivLimbs(SubSeq(f.m, 1, Len(f.m) - (f.e \div LimbBits)), 1,
                      2 ^ (f.e % LimbBits), 0, <<>>).q)

\* int((i / n) * 92)
Pct(idx, cnt) == IF idx = 0 THEN 0 ELSE Trunc(Product(Quotient(idx, cnt), PctScale))

\* The values of Pct for the page counts of the documents below, computed once.
MaxCount == IF MaxBlankPages > MaxPages THEN MaxBlankPages ELSE MaxPages
PctValues ==
    UNION { { <<idx, cnt, Pct(idx, cnt)>> : idx \in 0..(cnt - 1) } : cnt \in 1..MaxCount }
PctAt(idx, cnt) == (CHOOSE v \in PctValues : v[1] = idx /\ v[2] = cnt)[3]

\* ----------------------------------------------------------------- inputs
FormValues ==
    {[given |-> FALSE, v |-> 0]} \cup {[given |-> TRUE, v |-> k] : k \in (-1)..(MaxPages + 1)}
\* int(request.form.get(key, default) or default)
FormInt(f, default) == IF f.given THEN f.v ELSE default

Docs == {[ok |-> FALSE, total |-> 0]} \cup {[ok |-> TRUE, total |-> k] : k \in 1..MaxPages}

Obj(v, themes) == <<LC, F(v)>> \o themes \o <<RC>>
\* An object whose annotation string holds braces.
BraceObj(v, themes) == <<LC, Fo(v), LC, Txt(1, "x"), RC, Fc(v)>> \o themes \o <<RC>>
EmptyArr == <<LB, RB>>
LoveArr == <<LB, S("love"), RB>>

\* Page texts the extractor returns.
PageTexts == { <<>>, <<SP, NL>>, <<W(10)>>, <<NL, W(4500), SP>> }

\* Texts the completion client answers with.
DriverRaws ==
    { <<LB>> \o Obj("a", EmptyArr) \o <<RB>>,
      <<LB>> \o Obj("c", LoveArr) \o <<CM>> \o Obj("b", EmptyArr) \o <<RB, NL>>,
      <<>>,
      <<NL>>,
      EmptyArr,
      <<NUM>>,
      <<W(3), NL, W(600)>>,
      <<W(5), SP>> \o Obj("b", EmptyArr) \o <<SP, W(3)>>,
      <<LB>> \o Obj("a", EmptyArr) \o <<CM, LC, Tok("P", 10, "b")>>,
      Obj("b", EmptyArr),
      <<LB, NUM, CM, LC, G("d"), RC, RB>> }

ClientOutcomes ==
    {Failure(k) : k \in ClientFailures \cup {"bad_body"}} \cup {Response(r) : r \in DriverRaws}

\* The page script before run() is called.
ClientIdle ==
    /\ client = "idle" /\ consumed = 0 /\ ui_pct = 0 /\ ui_err = FALSE /\ allAnns = <<>>

\* build_pdf() before a request.
NoDoc == [ok |-> FALSE, pages |-> 0, ph |-> 0]
NoResponse == [status |-> 0, body |-> "", drawn |-> <<>>]
RenderIdle ==
    /\ build = "idle" /\ bdoc = NoDoc /\ raw_anns = Null /\ by_page = <<>>
    /\ grp = 0 /\ ai = 0 /\ margin_y = 0 /\ drawn = <<>> /\ bresp = NoResponse

\* -------------------------------------------------------------- annotate
Init ==
    /\ pc = "idle" /\ page_from = 1 /\ page_to = DefaultPageTo
    /\ doc = [ok |-> FALSE, total |-> 0]
    /\ n = 0 /\ p_start = 0 /\ p_end = 0 /\ i = 0
    /\ events = <<>> /\ calls = <<>> /\ extracted = <<>> /\ status = 0
    /\ raw = NoCase /\ repaired = NotRun
    /\ raw_list = List(<<>>) /\ cleaned = NotRun
    /\ ClientIdle
    /\ RenderIdle

\* annotate(): a request without a document or without instructions is refused.
AnnotateReject ==
    /\ pc = "idle"
    /\ pc' = "rejected" /\ status' = 400
    /\ UNCHANGED <<page_from, page_to, doc, n, p_start, p_end, i, events, calls, extracted>>
    /\ UNCHANGED <<unit_vars, client_vars, render_vars>>

\* annotate(): the form is read and the streaming response is returned.
AnnotateAccept(pf, pt, d) ==
    /\ pc = "idle"
    /\ page_from' = Max(1, FormInt(pf, 1))
    /\ page_to' = FormInt(pt, DefaultPageTo)
    /\ doc' = d
    /\ pc' = "open" /\ status' = 200
    /\ UNCHANGED <<n, p_start, p_end, i, events, calls, extracted>>
    /\ UNCHANGED <<unit_vars, client_vars, render_vars>>

\* generate(): pdfplumber.open raises.
GenerateOpenFails ==
    /\ pc = "open" /\ ~doc.ok
    /\ events' = Append(events, Error("open failed"))
    /\ pc' = "done"
    /\ UNCHANGED <<page_from, page_to, doc, n, p_start, p_end, i, calls, extracted, status>>
    /\ UNCHANGED <<unit_vars, client_vars, render_vars>>

\* generate(): the document opens and the page range is cut out of it.
GenerateOpen ==
    /\ pc = "open" /\ doc.ok
    /\ p_start' = page_from - 1
    /\ p_end' = Min(page_to, doc.total)
    /\ n' = SliceLen(doc.total, page_from - 1, Min(page_to, doc.total))
    /\ i' = 0
    /\ IF SliceLen(doc.total, page_from - 1, Min(page_to, doc.total)) = 0
       THEN /\ events' = Append(events, Error("No pages found in that range."))
            /\ pc' = "done"
       ELSE /\ events' = events
            /\ pc' = "page"
    /\ UNCHANGED <<page_from, page_to, doc, calls, extracted, status>>
    /\ UNCHANGED <<unit_vars, client_vars, render_vars>>

\* A faulty variant of pg_num: the loop index is left out.
pg_num_without_index == p_start + 1

pg_num == p_start + i + 1
PageHead == <<Progress(PctAt(i, n), pg_num, p_end), PageStart(pg_num)>>

\* generate(): page.extract_text() raises.
PageExtractFails ==
    /\ pc = "page" /\ i < n
    /\ events' = events \o PageHead \o <<Error("extract failed")>>
    /\ pc' = "done"
    /\ UNCHANGED <<page_from, page_to, doc, n, p_start, p_end, i, calls, extracted, status>>
    /\ UNCHANGED <<unit_vars, client_vars, render_vars>>

\* A faulty variant of PageNoText: the continue is left out, and the empty
\* text goes on to the completion client.
PageNoTextFallsThrough(text) ==
    /\ pc = "page" /\ i < n
    /\ Strip(text) = <<>>
    /\ events' = events \o PageHead
                    \o <<Annotation(pg_num, NoTextRecord), Annotation(pg_num, NoOutputRecord)>>
    /\ extracted' = Append(extracted, [page |-> pg_num, text |-> Strip(text)])
    /\ calls' = Append(calls, [page |-> pg_num, text |-> <<>>, resp |-> Response(<<>>)])
    /\ i' = i + 1
    /\ UNCHANGED <<pc, page_from, page_to, doc, n, p_start, p_end, status>>
    /\ UNCHANGED <<unit_vars, client_vars, render_vars>>

\* generate(): a page without text gets the canned record.
PageNoText(text) ==
    /\ pc = "page" /\ i < n
    /\ Strip(text) = <<>>
    /\ events' = events \o PageHead \o <<Annotation(pg_num, NoTextRecord)>>
    /\ extracted' = Append(extracted, [page |-> pg_num, text |-> Strip(text)])
    /\ i' = i + 1
    /\ UNCHANGED <<pc, page_from, page_to, doc, n, p_start, p_end, calls, status>>
    /\ UNCHANGED <<unit_vars, client_vars, render_vars>>

\* text[:4000] + "\n[truncated]" when the text is longer than 4000
PromptText(text) ==
    IF CharLen(text) > MaxTextLen
    THEN Prefix(text, MaxTextLen) \o <<NL, LB, W(9), RB>>
    ELSE text

RECURSIVE AnnotationEvents(_, _)
AnnotationEvents(pg, anns) ==
    IF anns = <<>> THEN <<>>
    ELSE <<Annotation(pg, Head(anns))>> \o AnnotationEvents(pg, Tail(anns))

\* generate(): what follows the call: the page's annotations, or the error.
AfterCall(res) ==
    IF res.ok
    THEN /\ events' = events \o PageHead \o AnnotationEvents(pg_num, res.anns)
         /\ i' = i + 1
         /\ pc' = pc
    ELSE /\ events' = events \o PageHead \o <<Error(res.err)>>
         /\ i' = i
         /\ pc' = "done"

\* generate(): a page with text is sent to the completion client.
PageCall(text, resp) ==
    /\ pc = "page" /\ i < n
    /\ Strip(text) # <<>>
    /\ extracted' = Append(extracted, [page |-> pg_num, text |-> Strip(text)])
    /\ calls' = Append(calls, [page |-> pg_num, text |-> PromptText(Strip(text)), resp |-> resp])
    /\ AfterCall(call_ollama(resp))
    /\ UNCHANGED <<page_from, page_to, doc, n, p_start, p_end, status>>
    /\ UNCHANGED <<unit_vars, client_vars, render_vars>>

\* A faulty variant of GenerateFinish: the marker is emitted before the last progress.
GenerateFinishMarkerFirst ==
    /\ pc = "page" /\ i = n
    /\ events' = events \o <<DoneMarker, FinalProgress>>
    /\ pc' = "done"
    /\ UNCHANGED <<page_from, page_to, doc, n, p_start, p_end, i, calls, extracted, status>>
    /\ UNCHANGED <<unit_vars, client_vars, render_vars>>

\* generate(): after the last page.
GenerateFinish ==
    /\ pc = "page" /\ i = n
    /\ events' = events \o <<FinalProgress, DoneMarker>>
    /\ pc' = "done"
    /\ UNCHANGED <<page_from, page_to, doc, n, p_start, p_end, i, calls, extracted, status>>
    /\ UNCHANGED <<unit_vars, client_vars, render_vars>>

Next ==
    \/ AnnotateReject
    \/ \E pf \in FormValues, pt \in FormValues, d \in Docs : AnnotateAccept(pf, pt, d)
    \/ GenerateOpenFails
    \/ GenerateOpen
    \/ PageExtractFails
    \/ \E text \in PageTexts : PageNoText(text)
    \/ \E text \in PageTexts, resp \in ClientOutcomes : PageCall(text, resp)
    \/ GenerateFinish

Spec == Init /\ [][Next]_vars

\* ------------------------------------------- _repair_json on its own
\* An annotation object of a test text: its record, its themes array, and
\* whether its annotation string holds braces.
ObjDescs == [v : {"a", "b", "e"}, th : {EmptyArr, LoveArr}]
ObjText(d) == IF d.v = "e" THEN BraceObj(d.v, d.th) ELSE Obj(d.v, d.th)
ObjSeqs(lo, hi) == UNION {[1..k -> ObjDescs] : k \in lo..hi}

RECURSIVE Joined(_)
Joined(objs) ==
    IF objs = <<>> THEN <<>>
    ELSE IF Len(objs) = 1 THEN ObjText(objs[1])
    ELSE ObjText(Head(objs)) \o <<CM>> \o Joined(Tail(objs))
ArrayText(objs) == <<LB>> \o Joined(objs) \o <<RB>>

\* Prose and fence markers before and after an array.
WrapBefore ==
    { <<>>, <<W(4), SP>>, <<FENCE, JSONTAG, NL>>, <<FENCE, NL>>,
      <<W(4), SP, LB, NUM, RB, SP>> }
WrapAfter == { <<>>, <<SP, W(4)>>, <<NL, FENCE>>, <<SP, LB, W(4), RB>> }

\* The ways the last object of an array is cut off.
Fragments ==
    { <<LC>>, <<LC, Tok("P", 10, "b")>>, <<LC, F("b")>>, <<LC, F("b"), LB>>,
      <<LC, F("b"), LB, S("love")>>, <<LC, F("b"), LB, RB>> }

\* Prose without brackets around a lone object.
ProseBefore == { <<W(5), SP>>, <<W(5), NL>>, <<>> }
ProseAfter == { <<SP, W(3)>>, <<>> }

WrappedCases ==
    { [kind |-> "wrapped", text |-> pre \o ArrayText(objs) \o suf, objs |-> objs] :
        pre \in WrapBefore, suf \in WrapAfter, objs \in ObjSeqs(0, MaxObjs) }
TruncatedCases ==
    { [kind |-> "truncated", text |-> <<LB>> \o Joined(objs) \o <<CM>> \o frag, objs |-> objs] :
        objs \in ObjSeqs(1, MaxObjs), frag \in Fragments }
FragmentCases ==
    { [kind |-> "fragment", text |-> pre \o ObjText(d) \o suf, objs |-> <<d>>] :
        pre \in ProseBefore, suf \in ProseAfter, d \in ObjDescs }
OtherCases ==
    { [kind |-> "other", text |-> r, objs |-> <<>>] :
        r \in DriverRaws \cup
              { <<NULLTOK>>, <<S("love")>>, <<LC, RC>>, <<W(200), NL, W(200)>>,
                <<W(3), SP, LC, Fq("a"), LB, RB, RC>>,
                <<W(3), SP, LB, LC, Fq("a"), LB, RB, RC, RB>>,
                <<LB, LC, Fn("a"), LB, RB, RC, RB>>,
                <<LB, LC, F("a"), LB, RB, RC, NL, CM, LC, F("b"), LB, RB, RC, RB>>,
                <<LB, LB>> \o Obj("a", EmptyArr) \o <<RB, RB>> } }
RepairCases == WrappedCases \cup TruncatedCases \cup FragmentCases \cup OtherCases

InitRepair ==
    /\ pc = "idle" /\ page_from = 1 /\ page_to = DefaultPageTo
    /\ doc = [ok |-> FALSE, total |-> 0]
    /\ n = 0 /\ p_start = 0 /\ p_end = 0 /\ i = 0
    /\ events = <<>> /\ calls = <<>> /\ extracted = <<>> /\ status = 0
    /\ raw \in RepairCases /\ repaired = NotRun
    /\ raw_list = List(<<>>) /\ cleaned = NotRun
    /\ ClientIdle
    /\ RenderIdle

RepairJson ==
    /\ raw.kind # "none" /\ ~repaired.ran
    /\ repaired' = [ran |-> TRUE, res |-> repair_json(raw.text)]
    /\ UNCHANGED <<driver_vars, raw, clean_vars, client_vars, render_vars>>

NextRepair == RepairJson
SpecRepair == InitRepair /\ [][NextRepair]_vars

\* --------------------------------------------------------- _clean on its own
FieldValues ==
    { Absent, Null, Num(5), List(<<>>), Str(<<>>),
      Str(<<Txt(5, "theme")>>), Str(<<SP, Txt(5, "THEME"), NL>>),
      Str(<<Txt(3, "the"), NL, Txt(2, "me")>>), Str(<<Txt(5, "bogus")>>) }
ThemeValues ==
    { Absent, Null, Str(<<Txt(4, "love")>>), List(<<>>),
      List(<<Str(<<Txt(4, "love")>>), Num(5), Null>>), EmptyDict }
TextValues == { Absent, Null, Str(<<NL, Txt(1, "q"), NL, Txt(1, "r"), SP>>) }

\* Entries of the sequence given to _clean: mappings, and values that are none.
CleanEntries ==
    { Dict(ty, Str(<<Txt(1, "q")>>), Absent, List(<<>>)) : ty \in FieldValues }
    \cup { Dict(Absent, q, a, Null) : q \in TextValues, a \in TextValues }
    \cup { Dict(Str(<<Txt(5, "theme")>>), Absent, Absent, th) : th \in ThemeValues }
    \cup { Null, Num(5), Str(<<Txt(4, "love")>>), List(<<EmptyDict>>) }
CleanInputs == UNION {[1..k -> CleanEntries] : k \in 0..MaxItems}

InitClean ==
    /\ pc = "idle" /\ page_from = 1 /\ page_to = DefaultPageTo
    /\ doc = [ok |-> FALSE, total |-> 0]
    /\ n = 0 /\ p_start = 0 /\ p_end = 0 /\ i = 0
    /\ events = <<>> /\ calls = <<>> /\ extracted = <<>> /\ status = 0
    /\ raw = NoCase /\ repaired = NotRun
    /\ raw_list \in {List(s) : s \in CleanInputs} /\ cleaned = NotRun
    /\ ClientIdle
    /\ RenderIdle

Clean ==
    /\ ~cleaned.ran
    /\ cleaned' = [ran |-> TRUE, res |-> clean(raw_list)]
    /\ UNCHANGED <<driver_vars, repair_vars, raw_list, client_vars, render_vars>>

NextClean == Clean
SpecClean == InitClean /\ [][NextClean]_vars

\* ------------------------------------------- run() of the page script
\* run(): the request was answered with an error status.
RunFetchRefused ==
    /\ client = "fetching" /\ status = 400
    /\ ui_err' = TRUE
    /\ client' = "finally"
    /\ UNCHANGED <<consumed, ui_pct, allAnns>>
    /\ UNCHANGED <<driver_vars, unit_vars, render_vars>>

\* run(): the streaming response has arrived.
RunFetchOk ==
    /\ client = "fetching" /\ status = 200
    /\ client' = "reading"
    /\ UNCHANGED <<consumed, ui_pct, ui_err, allAnns>>
    /\ UNCHANGED <<driver_vars, unit_vars, render_vars>>

\* run(): fetch() or reader.read() rejects.
RunFetchFails ==
    /\ client \in {"fetching", "reading"}
    /\ ui_err' = TRUE
    /\ client' = "finally"
    /\ UNCHANGED <<consumed, ui_pct, allAnns>>
    /\ UNCHANGED <<driver_vars, unit_vars, render_vars>>

\* handleMsg(msg); the completion marker is skipped before it.
handleMsg(msg) ==
    /\ ui_pct' = IF msg.type = "progress" THEN msg.pct ELSE ui_pct
    /\ allAnns' = IF msg.type = "annotation"
                  THEN Append(allAnns, [page |-> msg.page, data |-> msg.data])
                  ELSE allAnns
    /\ ui_err' = IF msg.type = "error" THEN TRUE ELSE ui_err

\* run(): the next event of the stream is read and handled.
RunRead ==
    /\ client = "reading" /\ consumed < Len(events)
    /\ consumed' = consumed + 1
    /\ handleMsg(events[consumed + 1])
    /\ UNCHANGED client
    /\ UNCHANGED <<driver_vars, unit_vars, render_vars>>

\* run(): the stream has ended; phase 2 starts when annotations were collected.
RunStreamEnd ==
    /\ client = "reading" /\ consumed = Len(events) /\ pc = "done"
    /\ IF allAnns # <<>>
       THEN ui_pct' = PctBuilding /\ client' = "building"
       ELSE ui_pct' = ui_pct /\ client' = "finally"
    /\ UNCHANGED <<consumed, ui_err, allAnns>>
    /\ UNCHANGED <<driver_vars, unit_vars, render_vars>>

\* run(): buildAndDownloadPdf() returns, or throws.
RunBuild(ok) ==
    /\ client = "building"
    /\ ui_err' = IF ok THEN ui_err ELSE TRUE
    /\ client' = "finally"
    /\ UNCHANGED <<consumed, ui_pct, allAnns>>
    /\ UNCHANGED <<driver_vars, unit_vars, render_vars>>

\* A faulty variant of RunFinally: the progress bar is left as it is.
RunFinallyKeepsProgress ==
    /\ client = "finally"
    /\ client' = "finished"
    /\ UNCHANGED <<consumed, ui_pct, ui_err, allAnns>>
    /\ UNCHANGED <<driver_vars, unit_vars, render_vars>>

\* run(): the finally block.
RunFinally ==
    /\ client = "finally"
    /\ ui_pct' = PctDone
    /\ client' = "finished"
    /\ UNCHANGED <<consumed, ui_err, allAnns>>
    /\ UNCHANGED <<driver_vars, unit_vars, render_vars>>

\* Page texts and completion-client outcomes of the jobs run() is followed on.
RunTexts == { <<>>, <<W(10)>> }
RunOutcomes ==
    { Failure("connection_error"), Failure("timeout"),
      Response(<<LB>> \o Obj("a", EmptyArr) \o <<RB>>) }

\* run() has shown progress 0 and posted the request.
InitRun ==
    /\ pc = "idle" /\ page_from = 1 /\ page_to = DefaultPageTo
    /\ doc = [ok |-> FALSE, total |-> 0]
    /\ n = 0 /\ p_start = 0 /\ p_end = 0 /\ i = 0
    /\ events = <<>> /\ calls = <<>> /\ extracted = <<>> /\ status = 0
    /\ raw = NoCase /\ repaired = NotRun
    /\ raw_list = List(<<>>) /\ cleaned = NotRun
    /\ client = "fetching" /\ consumed = 0 /\ ui_pct = 0 /\ ui_err = FALSE /\ allAnns = <<>>
    /\ RenderIdle

NextRun ==
    \/ AnnotateReject
    \/ \E pf \in FormValues, pt \in FormValues, d \in Docs : AnnotateAccept(pf, pt, d)
    \/ GenerateOpenFails
    \/ GenerateOpen
    \/ PageExtractFails
    \/ \E text \in RunTexts : PageNoText(text)
    \/ \E text \in RunTexts, resp \in RunOutcomes : PageCall(text, resp)
    \/ GenerateFinish
    \/ RunFetchRefused
    \/ RunFetchOk
    \/ RunFetchFails
    \/ RunRead
    \/ RunStreamEnd
    \/ \E ok \in BOOLEAN : RunBuild(ok)
    \/ RunFinally

\* The server runs the generator to its end and the browser runs run() to
\* its end: some step is taken as long as one is possible.
SpecRun == InitRun /\ [][NextRun]_vars /\ WF_vars(NextRun)

\* ------------------------------------------- build_pdf, _render_pdf
\* An entry of the annotations list: its page and quote as JSON values, the
\* number of rectangles page.search_for(quote) gives on its page, the
\* numbers of lines textwrap.wrap gives for its quote and for its text, and
\* whether its themes is a non-empty list.
Ann(page, quote, hits, qlines, alines, themed) ==
    [k |-> "dict", page |-> page, quote |-> quote, hits |-> hits,
     qlines |-> qlines, alines |-> alines, themed |-> themed]

\* a.get("page", 0)
PageKey(a) == IF a.page = Absent THEN Num(0) ELSE a.page

\* by_page.setdefault(pg, []).append(a)
KeyIndex(groups, key) ==
    IF \E g \in 1..Len(groups) : groups[g].key = key
    THEN CHOOSE g \in 1..Len(groups) : groups[g].key = key
    ELSE 0
AddAt(groups, g, key, a) ==
    IF g = 0 THEN Append(groups, [key |-> key, anns |-> <<a>>])
    ELSE [groups EXCEPT ![g].anns = Append(@, a)]
AddToGroup(groups, key, a) == AddAt(groups, KeyIndex(groups, key), key, a)
RECURSIVE GroupByPage(_, _)
GroupByPage(anns, groups) ==
    IF anns = <<>> THEN groups
    ELSE GroupByPage(Tail(anns), AddToGroup(groups, PageKey(Head(anns)), Head(anns)))

\* Responses of build_pdf.
Pdf(d) == [status |-> 200, body |-> "pdf", drawn |-> d]
RenderError == [status |-> 500, body |-> "PDF render error", drawn |-> <<>>]
BadRequest(msg) == [status |-> 400, body |-> msg, drawn |-> <<>>]
\* An exception no handler of build_pdf catches: the framework's answer.
Unhandled == [status |-> 500, body |-> "Internal Server Error", drawn |-> <<>>]

\* build_pdf(): no document in the request.
BuildNoPdf ==
    /\ build = "idle"
    /\ bresp' = BadRequest("No PDF")
    /\ build' = "done"
    /\ UNCHANGED <<bdoc, raw_anns, by_page, grp, ai, margin_y, drawn>>
    /\ UNCHANGED <<driver_vars, unit_vars, client_vars>>

\* build_pdf(): json.loads(ann_json) raises.
BuildInvalidJson(d) ==
    /\ build = "idle"
    /\ bdoc' = d
    /\ bresp' = BadRequest("Invalid annotations JSON")
    /\ build' = "done"
    /\ UNCHANGED <<raw_anns, by_page, grp, ai, margin_y, drawn>>
    /\ UNCHANGED <<driver_vars, unit_vars, client_vars>>

\* Whether the grouping loop runs through: raw_anns is iterable and a.get
\* exists on every entry.
Groupable(v) == v.k = "list" /\ \A e \in 1..Len(v.items) : v.items[e].k = "dict"

\* build_pdf(): the annotations are parsed and grouped by page.
BuildGroup(d, v) ==
    /\ build = "idle"
    /\ bdoc' = d
    /\ raw_anns' = v
    /\ IF Groupable(v)
       THEN /\ by_page' = GroupByPage(v.items, <<>>)
            /\ build' = "open"
            /\ bresp' = bresp
       ELSE /\ by_page' = by_page
            /\ build' = "done"
            /\ bresp' = Unhandled
    /\ UNCHANGED <<grp, ai, margin_y, drawn>>
    /\ UNCHANGED <<driver_vars, unit_vars, client_vars>>

\* _render_pdf(): fitz.open raises.
RenderOpenFails ==
    /\ build = "open" /\ ~bdoc.ok
    /\ bresp' = RenderError
    /\ build' = "done"
    /\ UNCHANGED <<bdoc, raw_anns, by_page, grp, ai, margin_y, drawn>>
    /\ UNCHANGED <<driver_vars, unit_vars, client_vars>>

\* _render_pdf(): the document opens.
RenderOpen ==
    /\ build = "open" /\ bdoc.ok
    /\ grp' = 1
    /\ build' = "pages"
    /\ UNCHANGED <<bdoc, raw_anns, by_page, ai, margin_y, drawn, bresp>>
    /\ UNCHANGED <<driver_vars, unit_vars, client_vars>>

\* pg_idx < 0 or pg_idx >= len(doc)
OutOfBounds(page_num) == page_num - 1 < 0 \/ page_num - 1 >= bdoc.pages

\* _render_pdf(): the head of the outer loop, for the next group.
RenderPage ==
    /\ build = "pages" /\ grp <= Len(by_page)
    /\ IF by_page[grp].key.k # "num"
       THEN /\ bresp' = RenderError
            /\ build' = "done"
            /\ UNCHANGED <<grp, ai, margin_y>>
       ELSE IF OutOfBounds(by_page[grp].key.x)
       THEN /\ grp' = grp + 1
            /\ UNCHANGED <<build, ai, margin_y, bresp>>
       ELSE /\ margin_y' = TopInset
            /\ ai' = 1
            /\ build' = "anns"
            /\ UNCHANGED <<grp, bresp>>
    /\ UNCHANGED <<bdoc, raw_anns, by_page, drawn>>
    /\ UNCHANGED <<driver_vars, unit_vars, client_vars>>

\* ann.get("quote", "").strip()
QuoteOf(ann) == IF ann.quote = Absent THEN <<>> ELSE Strip(ann.quote.s)

\* A faulty variant of Highlights: every match is highlighted.
HighlightsUncapped(ann, quote) ==
    IF CharLen(quote) >= MinQuoteLen THEN ann.hits ELSE 0

\* The rectangles drawn for the quote: hits[:5] when it is searched for.
Highlights(ann, quote) ==
    IF CharLen(quote) >= MinQuoteLen THEN Min(ann.hits, HitCap) ELSE 0

\* len(quote_lines)
QuoteLines(ann, quote) == IF quote # <<>> THEN ann.qlines ELSE 0

LinesHeight(ql, al, themed) ==
    BoxBase + ql * LineQuote + (IF ql > 0 THEN QuoteGap ELSE 0)
            + al * LineText + (IF themed THEN ThemeRow ELSE 0)
box_h(ann, quote) == LinesHeight(QuoteLines(ann, quote), ann.alines, ann.themed)

\* Wrap to top if overflow
BoxTop(y, h) == IF y + h > bdoc.ph - BottomInset THEN TopInset ELSE y

\* A faulty variant of NextMarginY: the gap is left out.
NextMarginYNoGap(y1) == y1

\* margin_y = box.y1 + 3.5
NextMarginY(y1) == y1 + Gap

\* What is drawn for one annotation: the highlights and the box.
Drawing(page_num, ann, quote, y0, h) ==
    [page |-> page_num, ann |-> ann,
     searched |-> CharLen(quote) >= MinQuoteLen,
     highlights |-> Highlights(ann, quote),
     y0 |-> y0, y1 |-> y0 + h]
DrawingAt(page_num, ann, quote, h) == Drawing(page_num, ann, quote, BoxTop(margin_y, h), h)
DrawingOf(page_num, ann, quote) == DrawingAt(page_num, ann, quote, box_h(ann, quote))

\* The body of the inner loop, for a well-formed annotation.
DrawAnnotation(d) ==
    /\ drawn' = Append(drawn, d)
    /\ margin_y' = NextMarginY(d.y1)
    /\ IF ai < Len(by_page[grp].anns)
       THEN ai' = ai + 1 /\ UNCHANGED <<grp, build>>
       ELSE grp' = grp + 1 /\ build' = "pages" /\ ai' = ai
    /\ bresp' = bresp

\* _render_pdf(): the inner loop, for the next annotation of the page.
RenderAnnotation ==
    /\ build = "anns"
    /\ IF by_page[grp].anns[ai].quote = Null
       THEN /\ bresp' = RenderError
            /\ build' = "done"
            /\ UNCHANGED <<grp, ai, margin_y, drawn>>
       ELSE DrawAnnotation(DrawingOf(by_page[grp].key.x, by_page[grp].anns[ai],
                                     QuoteOf(by_page[grp].anns[ai])))
    /\ UNCHANGED <<bdoc, raw_anns, by_page>>
    /\ UNCHANGED <<driver_vars, unit_vars, client_vars>>

\* _render_pdf(): doc.save raises.
RenderSaveFails ==
    /\ build = "pages" /\ grp > Len(by_page)
    /\ bresp' = RenderError
    /\ build' = "done"
    /\ UNCHANGED <<bdoc, raw_anns, by_page, grp, ai, margin_y, drawn>>
    /\ UNCHANGED <<driver_vars, unit_vars, client_vars>>

\* _render_pdf() returns the document and build_pdf sends it.
RenderSave ==
    /\ build = "pages" /\ grp > Len(by_page)
    /\ bresp' = Pdf(drawn)
    /\ build' = "done"
    /\ UNCHANGED <<bdoc, raw_anns, by_page, grp, ai, margin_y, drawn>>
    /\ UNCHANGED <<driver_vars, unit_vars, client_vars>>

\* Documents: one that does not open, and documents of one or two pages of
\* a small and of a letter-size height.
PageHeights == {100000, 792000}
RenderDocs ==
    {NoDoc} \cup {[ok |-> TRUE, pages |-> k, ph |-> h] : k \in 1..MaxPages, h \in PageHeights}

Quote8 == Str(<<Txt(4, "Thou"), SP, Txt(3, "art")>>)
\* Entries of the annotations list.
AnnEntries ==
    { Ann(Num(1), Quote8, 1, 1, 3, TRUE),
      Ann(Num(1), Quote8, MaxHits, 1, 1, FALSE),
      Ann(Num(1), Quote8, 0, 2, 3, FALSE),
      Ann(Num(1), Str(<<Txt(4, "thou")>>), 2, 1, 1, FALSE),
      Ann(Num(1), Str(<<SP, Txt(3, "art"), SP>>), 1, 1, 1, TRUE),
      Ann(Num(1), Absent, 0, 0, 0, FALSE),
      Ann(Num(1), Str(<<>>), 0, 0, MaxLines, FALSE),
      Ann(Num(2), Quote8, 1, 1, 1, FALSE),
      Ann(Absent, Quote8, 1, 1, 1, FALSE),
      Ann(Num(MaxPages + 1), Null, 0, 0, 1, FALSE),
      Ann(Num(1), Null, 0, 0, 1, FALSE),
      Ann(Str(<<Txt(1, "1")>>), Quote8, 1, 1, 1, FALSE),
      Num(5) }
AnnLists == UNION {[1..k -> AnnEntries] : k \in 0..MaxAnns}
\* What json.loads(ann_json) gives: a list of entries, or a number.
AnnValues == {List(s) : s \in AnnLists} \cup {Num(5)}

InitRender ==
    /\ pc = "idle" /\ page_from = 1 /\ page_to = DefaultPageTo
    /\ doc = [ok |-> FALSE, total |-> 0]
    /\ n = 0 /\ p_start = 0 /\ p_end = 0 /\ i = 0
    /\ events = <<>> /\ calls = <<>> /\ extracted = <<>> /\ status = 0
    /\ raw = NoCase /\ repaired = NotRun
    /\ raw_list = List(<<>>) /\ cleaned = NotRun
    /\ client = "idle" /\ consumed = 0 /\ ui_pct = 0 /\ ui_err = FALSE /\ allAnns = <<>>
    /\ RenderIdle

NextRender ==
    \/ BuildNoPdf
    \/ \E d \in RenderDocs : BuildInvalidJson(d)
    \/ \E d \in RenderDocs, v \in AnnValues : BuildGroup(d, v)
    \/ RenderOpenFails
    \/ RenderOpen
    \/ RenderPage
    \/ RenderAnnotation
    \/ RenderSaveFails
    \/ RenderSave

SpecRender == InitRender /\ [][NextRender]_vars

\* ------------------------------------- generate() on long documents
\* The page loop on its own, over documents of up to MaxBlankPages pages
\* without text, from the state generate() is in once the range is cut out.
InitProgress ==
    /\ pc = "page" /\ page_from = 1 /\ page_to = DefaultPageTo
    /\ n \in 1..MaxBlankPages
    /\ doc = [ok |-> TRUE, total |-> n]
    /\ p_start = 0 /\ p_end = n /\ i = 0
    /\ events = <<>> /\ calls = <<>> /\ extracted = <<>> /\ status = 200
    /\ raw = NoCase /\ repaired = NotRun
    /\ raw_list = List(<<>>) /\ cleaned = NotRun
    /\ ClientIdle
    /\ RenderIdle

NextProgress ==
    \/ PageNoText(<<>>)
    \/ GenerateFinish

SpecProgress == InitProgress /\ [][NextProgress]_vars

\* ===================================================== claims: the driver
IsPrefixOf(p, s) == p = Prefix(s, CharLen(p))
HasNewline(s) == \E k \in 1..Len(s) : s[k].c \in {"nl", "Fn"}
ErrorCount == Cardinality({k \in 1..Len(events) : events[k].type = "error"})
\* The events that belong to a page: its progress, page_start and annotations.
OfPage(e) == e.type \in {"page_start", "annotation"} \/ (e.type = "progress" /\ e.page # 0)
EventsOfPage(pg) == {k \in 1..Len(events) : OfPage(events[k]) /\ events[k].page = pg}
AnnotationsOfPage(pg) ==
    {k \in 1..Len(events) : events[k].type = "annotation" /\ events[k].page = pg}
ClientFailed(c) == c.resp.kind \in {"connection_error", "timeout"}

\* C1: once the completion client fails with a connection failure or a
\* timeout on page k, the stream holds the events of the pages before k, then
\* the progress and page_start of page k, then one error event that is the
\* last event; it holds no event of a later page and no completion marker,
\* and no further completion-client call is made.
C1_ClientFailureIsFatal ==
    \A c \in 1..Len(calls) :
        ClientFailed(calls[c]) =>
            /\ c = Len(calls)
            /\ pc = "done"
            /\ ErrorCount = 1
            /\ Len(events) >= 3
            /\ events[Len(events)].type = "error"
            /\ events[Len(events) - 1] = PageStart(calls[c].page)
            /\ \A k \in 1..Len(events) :
                  /\ events[k] # DoneMarker
                  /\ events[k] # FinalProgress
                  /\ OfPage(events[k]) => events[k].page <= calls[c].page
            /\ \A pg \in (p_start + 1)..(calls[c].page - 1) :
                  /\ Cardinality({k \in EventsOfPage(pg) : events[k].type = "page_start"}) = 1
                  /\ AnnotationsOfPage(pg) # {}

\* C1 witness: the client failed on the second page of a two-page range, after
\* the first page's annotations were emitted.
C1_Witness ==
    /\ Len(calls) = 2 /\ ClientFailed(calls[2]) /\ calls[2].page = 2
    /\ AnnotationsOfPage(1) # {}
    /\ pc = "done"

RepairFailed(c) ==
    /\ c.resp.kind = "response"
    /\ Strip(c.resp.raw) # <<>>
    /\ ~repair_json(Strip(c.resp.raw)).ok

\* C2: when _repair_json raises its repair failure for the text of a page, the
\* page gets exactly one annotation event, a notation record whose text is
\* the parse-failure notice followed by a prefix of the raw text of at most
\* 500 characters; no error event follows it, and the loop has moved past
\* the page.
C2_RepairFailureIsPerPage ==
    \A c \in 1..Len(calls) :
        RepairFailed(calls[c]) =>
            /\ Cardinality(AnnotationsOfPage(calls[c].page)) = 1
            /\ \A k \in AnnotationsOfPage(calls[c].page) :
                  LET a == events[k].data.annotation
                      snippet == SubSeq(a, Len(ParseFailedHead) + 1, Len(a))
                  IN /\ events[k].data.type = "notation"
                     /\ SubSeq(a, 1, Len(ParseFailedHead)) = ParseFailedHead
                     /\ snippet # <<>>
                     /\ IsPrefixOf(snippet, Strip(calls[c].resp.raw))
                     /\ CharLen(snippet) <= DiagSnippetLen
                     /\ (k = Len(events) \/ events[k + 1].type = "progress")
            /\ i >= calls[c].page - p_start

\* C2 witness: the repair failed on page 1 for a raw text longer than the
\* snippet, and page 2 was then processed.
C2_Witness ==
    /\ Len(calls) >= 1 /\ RepairFailed(calls[1]) /\ calls[1].page = 1
    /\ CharLen(Strip(calls[1].resp.raw)) > DiagSnippetLen
    /\ \E k \in 1..Len(events) : events[k] = PageStart(2)

\* C3: the stream is page-ascending: an event of page N never follows an
\* event of a page M > N; and every annotation event is preceded by exactly
\* one page_start event of its own page.
C3_PageAscending ==
    /\ \A a \in 1..Len(events) : \A b \in a..Len(events) :
          (OfPage(events[a]) /\ OfPage(events[b])) => events[a].page <= events[b].page
    /\ \A b \in 1..Len(events) :
          events[b].type = "annotation" =>
             Cardinality({a \in 1..(b - 1) : events[a] = PageStart(events[b].page)}) = 1

\* C3 witness: annotations of two different pages are in the stream.
C3_Witness == AnnotationsOfPage(1) # {} /\ AnnotationsOfPage(2) # {}

\* C4 as stated: every finished generation stream ends with the completion marker.
C4_EveryStreamEndsWithMarker ==
    pc = "done" => (events # <<>> /\ events[Len(events)] = DoneMarker)

\* C4 as amended: the completion marker, when it is emitted, is the last
\* event and is emitted once; a finished stream without an error event ends
\* with the marker, and a stream with an error event ends with that error
\* and carries no marker.
C4_MarkerIsLast ==
    /\ \A k \in 1..Len(events) : events[k] = DoneMarker => k = Len(events)
    /\ pc = "done" =>
          /\ events # <<>>
          /\ ErrorCount = 0 => events[Len(events)] = DoneMarker
          /\ ErrorCount > 0 => ErrorCount = 1 /\ events[Len(events)].type = "error"

\* C4 witness: a finished stream of two pages that ends with the marker.
C4_Witness ==
    /\ pc = "done" /\ n = 2 /\ events # <<>> /\ events[Len(events)] = DoneMarker

\* C11: a page whose extracted text is empty after stripping gets exactly one
\* annotation event, the notation record with an empty quote and the
\* no-extractable-text message; no completion-client call is made for it, no
\* error event follows it, and the loop has moved past the page.
C11_BlankPageIsPerPage ==
    \A e \in 1..Len(extracted) :
        extracted[e].text = <<>> =>
            /\ Cardinality(AnnotationsOfPage(extracted[e].page)) = 1
            /\ \A k \in AnnotationsOfPage(extracted[e].page) :
                  /\ events[k].data.type = "notation"
                  /\ events[k].data.quote = <<>>
                  /\ events[k].data.annotation =
                        <<Txt(51, "No extractable text on this page (may be an image).")>>
                  /\ events[k].data.themes = <<>>
                  /\ k > 1 /\ events[k - 1] = PageStart(extracted[e].page)
                  /\ (k = Len(events) \/ events[k + 1].type = "progress")
            /\ \A c \in 1..Len(calls) : calls[c].page # extracted[e].page
            /\ i >= extracted[e].page - p_start

\* C11 witness: page 1 had no text, page 2 was sent to the completion client,
\* and the job ran to its end.
C11_Witness ==
    /\ Len(extracted) = 2 /\ extracted[1] = [page |-> 1, text |-> <<>>]
    /\ Len(calls) = 1 /\ calls[1].page = 2
    /\ pc = "done" /\ ErrorCount = 0

\* C12: every page number of a page_start or annotation event lies in
\* max(1, page_from) .. min(page_to, total pages), and a job that ends without
\* an error has processed every page of that interval exactly once.
C12_PageRangeClamped ==
    /\ \A k \in 1..Len(events) :
          events[k].type \in {"page_start", "annotation"} =>
             /\ page_from <= events[k].page
             /\ events[k].page <= Min(page_to, doc.total)
    /\ (pc = "done" /\ ErrorCount = 0) =>
          \A p \in page_from..Min(page_to, doc.total) :
             Cardinality({k \in 1..Len(events) : events[k] = PageStart(p)}) = 1

\* C13: when page_from is greater than min(page_to, total pages), the stream
\* is one error event and nothing else, and no completion-client call is made.
C13_EmptyRangeIsFatal ==
    (doc.ok /\ pc \in {"page", "done"} /\ page_from > Min(page_to, doc.total)) =>
        /\ pc = "done"
        /\ Len(events) = 1 /\ events[1].type = "error"
        /\ calls = <<>>

\* C19: for every page whose completion-client call returned a response,
\* whatever its text, the page has at least one annotation event, the
\* stream's error event (if any) is not that page's, and the loop has moved
\* past the page.
C19_OnlyClientFailureIsFatal ==
    \A c \in 1..Len(calls) :
        calls[c].resp.kind = "response" =>
            /\ AnnotationsOfPage(calls[c].page) # {}
            /\ \A k \in 2..Len(events) :
                  events[k].type = "error" => events[k - 1] # PageStart(calls[c].page)
            /\ i >= calls[c].page - p_start

\* C20: a progress event stands immediately before the page_start of each
\* page, with pct = floor(92 * i / n) for the i-th page of the range, counted
\* from 0; a progress event of pct 93 follows the last page; every pct is an
\* integer of 0..100, the pct values never decrease along the stream, and no
\* page's pct reaches 93.
C20_ProgressValues ==
    /\ \A k \in 1..Len(events) :
          events[k].type = "page_start" =>
             /\ k > 1 /\ events[k - 1].type = "progress"
             /\ events[k - 1].pct = (92 * (events[k].page - p_start - 1)) \div n
             /\ events[k - 1].pct < 93
    /\ (pc = "done" /\ ErrorCount = 0) =>
          /\ Len(events) >= 2
          /\ events[Len(events) - 1].type = "progress"
          /\ events[Len(events) - 1].pct = 93
    /\ \A k \in 1..Len(events) :
          events[k].type = "progress" =>
             /\ events[k].pct \in 0..100
             /\ \A j \in 1..k : events[j].type = "progress" => events[j].pct <= events[k].pct

\* ============================================== claims: the page script
\* C14: in every generation job, also one that ends with a fatal failure,
\* the progress indication eventually stands at 100 (or at the terminal
\* percentage 93) and stays there: the last value the consumer shows is never
\* a mid-job percentage.
C14_ProgressReachesTerminal == <>[](ui_pct \in {93, 100})

\* C14 witness: the job ended with a completion-client failure on its
\* second page, after a mid-job percentage was shown, and run() has ended
\* with the progress at 100.
C14_Witness ==
    /\ client = "finished" /\ ui_pct = 100
    /\ ErrorCount = 1 /\ Len(calls) >= 1 /\ ClientFailed(calls[Len(calls)])
    /\ consumed = Len(events)
    /\ \E k \in 1..Len(events) :
          events[k].type = "progress" /\ events[k].pct > 0 /\ events[k].pct < 93

\* ================================================= claims: the renderer
SamePage(a, b) == drawn[a].page = drawn[b].page
Height(d) == d.y1 - d.y0
\* The box b stands right below the box before it, the gap between them.
Stacked(b) == b > 1 /\ SamePage(b - 1, b) /\ drawn[b].y0 = drawn[b - 1].y1 + 3500

\* C15 as stated: no two boxes of a page have intersecting vertical extents,
\* and of two consecutive boxes of a page the second one's top is the first
\* one's bottom plus 3.5.
C15_BoxesNeverOverlap ==
    /\ \A a \in 1..Len(drawn) : \A b \in (a + 1)..Len(drawn) :
          SamePage(a, b) => (drawn[a].y1 <= drawn[b].y0 \/ drawn[b].y1 <= drawn[a].y0)
    /\ \A b \in 2..Len(drawn) : SamePage(b - 1, b) => Stacked(b)

\* C15 as amended: of two consecutive boxes of a page the second one's top
\* is the first one's bottom plus 3.5, unless the second box would then
\* extend past the bottom inset (page height minus 12), in which case its top
\* is the top inset 14; two boxes of a page between which no box was put back
\* to the top inset do not intersect.
C15_BoxesStackedUntilWrap ==
    /\ \A b \in 2..Len(drawn) :
          SamePage(b - 1, b) =>
             IF drawn[b - 1].y1 + 3500 + Height(drawn[b]) > bdoc.ph - 12000
             THEN drawn[b].y0 = 14000
             ELSE Stacked(b)
    /\ \A a \in 1..Len(drawn) : \A b \in (a + 1)..Len(drawn) :
          (SamePage(a, b) /\ \A c \in (a + 1)..b : Stacked(c)) =>
             drawn[a].y1 < drawn[b].y0

\* C15 witness: two boxes of one page, the second stacked below the first,
\* in a document that was returned.
C15_Witness ==
    /\ Len(drawn) = 2 /\ Stacked(2)
    /\ build = "done" /\ bresp.status = 200

\* The cursor a box met: the top inset for the first box of a page, the
\* bottom of the box before it plus the gap for the others.
CursorAt(b) ==
    IF b > 1 /\ SamePage(b - 1, b) THEN drawn[b - 1].y1 + 3500 ELSE 14000

\* C16: every margin box is drawn with its top not below the bottom inset
\* (page height minus 12); a box that would extend past the bottom inset at
\* the cursor is placed at the top inset 14; and no box extends past the
\* page boundary.
C16_BoxesStayOnPage ==
    \A b \in 1..Len(drawn) :
        /\ drawn[b].y0 <= bdoc.ph - 12000
        /\ CursorAt(b) + Height(drawn[b]) > bdoc.ph - 12000 => drawn[b].y0 = 14000
        /\ drawn[b].y1 <= bdoc.ph

InBounds(e) == e.page.k = "num" /\ e.page.x >= 1 /\ e.page.x <= bdoc.pages
\* A fault of the render call other than an out-of-bounds page: the
\* document does not open, the annotations are no list, an entry is no
\* mapping, its page is no number, or an entry of a page of the document has
\* a quote that is no string.
RequestFault ==
    \/ ~bdoc.ok
    \/ raw_anns.k # "list"
    \/ \E e \in 1..Len(raw_anns.items) :
          \/ raw_anns.items[e].k # "dict"
          \/ raw_anns.items[e].page.k \notin {"num", "absent"}
          \/ InBounds(raw_anns.items[e]) /\ raw_anns.items[e].quote = Null
WrappedError == [status |-> 500, body |-> "PDF render error", drawn |-> <<>>]

\* C18: in a render call whose annotations parse, entries of pages outside
\* the document are skipped without error and nothing is drawn for them,
\* while every entry of a page of the document is rendered; any other fault,
\* a malformed entry included, gives the one wrapped render-error response
\* and no document.
C18_SkipOrWrappedError ==
    (build = "done" /\ raw_anns # Null) =>
        IF RequestFault
        THEN bresp = WrappedError
        ELSE \/ bresp = WrappedError
             \/ /\ bresp.status = 200 /\ bresp.body = "pdf"
                /\ \A d \in 1..Len(bresp.drawn) :
                      bresp.drawn[d].page >= 1 /\ bresp.drawn[d].page <= bdoc.pages
                /\ Len(bresp.drawn) =
                      Cardinality({e \in 1..Len(raw_anns.items) : InBounds(raw_anns.items[e])})
                /\ \A e \in 1..Len(raw_anns.items) :
                      InBounds(raw_anns.items[e]) =>
                         \E d \in 1..Len(bresp.drawn) :
                            /\ bresp.drawn[d].ann = raw_anns.items[e]
                            /\ bresp.drawn[d].page = raw_anns.items[e].page.x

\* ================================================ claims: _repair_json
\* The value a well-formed object of a test text stands for.
ObjValue(d) ==
    Dict(Rec(d.v).type, Rec(d.v).quote, Rec(d.v).annotation,
         IF d.th = EmptyArr THEN List(<<>>) ELSE List(<<Str(<<Txt(4, "love")>>)>>))
ObjValues(objs) == [k \in 1..Len(objs) |-> ObjValue(objs[k])]

\* C5: _repair_json has two outcomes only: it returns a non-empty sequence, or
\* it raises the repair failure with a snippet of at most 300 characters of
\* the raw text.
C5_TwoOutcomes ==
    repaired.ran =>
        \/ /\ repaired.res.ok
           /\ repaired.res.val.k = "list"
           /\ repaired.res.val.items # <<>>
        \/ /\ ~repaired.res.ok
           /\ IsPrefixOf(repaired.res.snippet, raw.text)
           /\ CharLen(repaired.res.snippet) <= RepairSnippetLen

\* C6: for an array of k+1 annotation objects cut off inside the last one,
\* _repair_json returns exactly the k complete objects, in order.
C6_TruncationRecovery ==
    (repaired.ran /\ raw.kind = "truncated") =>
        (repaired.res.ok /\ repaired.res.val = List(ObjValues(raw.objs)))

\* C7: for prose without an enclosing array that holds one annotation object
\* with "themes":[], _repair_json returns a sequence of exactly that object.
C7_FragmentRecovery ==
    (repaired.ran /\ raw.kind = "fragment" /\ raw.objs[1].th = EmptyArr) =>
        (repaired.res.ok /\ repaired.res.val = List(ObjValues(raw.objs)))

\* C8: for one valid array of annotation objects with prose or fence markers
\* before it, after it or both, _repair_json returns exactly the elements of
\* the array, in order.
C8_WrappedArrayRecovery ==
    (repaired.ran /\ raw.kind = "wrapped" /\ raw.objs # <<>>) =>
        (repaired.res.ok /\ repaired.res.val = List(ObjValues(raw.objs)))

\* ======================================================= claims: _clean
IsDictEntry(e) == e.k = "dict"
IsString(s) == DOMAIN s = 1..Len(s) /\ \A k \in 1..Len(s) : s[k].c # ""
WellFormed(a) ==
    /\ a.type \in ValidTypes
    /\ IsString(a.quote) /\ ~HasNewline(a.quote)
    /\ IsString(a.annotation) /\ ~HasNewline(a.annotation)
    /\ DOMAIN a.themes = 1..Len(a.themes)
    /\ \A k \in 1..Len(a.themes) : IsString(a.themes[k])

\* C9: _clean never raises; it returns one record per mapping entry, in input
\* order, so never more records than entries; every record has a type of
\* the enumeration (notation when the entry's type is not one of them),
\* quote and annotation strings, and a themes sequence of strings, which has
\* one string per element of a list-shaped themes value and is empty for
\* any other themes value.
C9_CleanIsTotal ==
    cleaned.ran =>
        LET out == cleaned.res.out
            dicts == SelectSeq(raw_list.items, IsDictEntry)
        IN /\ cleaned.res.exc = ""
           /\ Len(out) <= Len(raw_list.items)
           /\ Len(out) = Len(dicts)
           /\ \A j \in 1..Len(out) :
                 /\ WellFormed(out[j])
                 /\ dicts[j].type.k # "str" => out[j].type = "notation"
                 /\ dicts[j].type = Str(<<Txt(5, "bogus")>>) => out[j].type = "notation"
                 /\ dicts[j].type = Str(<<SP, Txt(5, "THEME"), NL>>) => out[j].type = "theme"
                 /\ dicts[j].themes.k = "list" =>
                       Len(out[j].themes) = Len(dicts[j].themes.items)
                 /\ dicts[j].themes.k # "list" => out[j].themes = <<>>

\* C9 witness: _clean has run on a sequence that holds an entry that is no
\* mapping and a mapping without a type whose themes is no list.
C9_Witness ==
    /\ cleaned.ran
    /\ \E a, b \in 1..Len(raw_list.items) :
          /\ raw_list.items[a].k # "dict"
          /\ raw_list.items[b].k = "dict"
          /\ raw_list.items[b].type.k = "absent"
          /\ raw_list.items[b].themes.k = "null"
    /\ Len(cleaned.res.out) < Len(raw_list.items)

\* C10: every annotation event carries a record whose type is of the
\* enumeration, whose quote and annotation hold no newline, and whose themes
\* is a sequence.
C10_AnnotationsWellFormed ==
    \A k \in 1..Len(events) :
        events[k].type = "annotation" => WellFormed(events[k].data)
====
